---- MODULE Spec2Model ----
(***************************************************************************)
(* Model of src/key.rs of the Meilisearch Rust SDK: the Key, KeyBuilder    *)
(* and KeysQuery data shapes, their serde wire forms, the fluent mutators, *)
(* the Action token table and the three submissions that delegate to the   *)
(* Client collaborator.                                                    *)
(***************************************************************************)
EXTENDS Integers, Sequences, FiniteSets, TLC

VARIABLES
    builder,        \* the KeyBuilder value held by the caller
    builderCalls,   \* history of the calls made on the KeyBuilder
    key,            \* Option<Key>: the Key value held by the caller
    parsed,         \* Option: a payload to deserialize as a Key and the outcome
    query,          \* the KeysQuery value held by the caller
    queryCalls,     \* history of the calls made on the KeysQuery
    futures,        \* the futures returned by update / execute, by invocation
    requests,       \* the calls received by the Client collaborator, by invocation
    responses,      \* the answers given by the Client collaborator, by invocation
    steps,          \* number of calls made by the caller in the session
    codecIn,        \* inputs of the Action codec: two variants and a token, or None
    codecOut        \* outputs of the Action codec

vars == <<builder, builderCalls, key, parsed, query, queryCalls, futures,
          requests, responses, steps, codecIn, codecOut>>

\* Length bound of a caller session (number of operations).
MaxSteps == 3

(***************************************************************************)
(* Values                                                                  *)
(***************************************************************************)
None == <<>>
Some(v) == <<v>>
IsSome(o) == o # <<>>
Unwrap(o) == o[1]

Ok(v) == <<"Ok", v>>
Err(e) == <<"Err", e>>
IsOk(r) == r[1] = "Ok"
IsErr(r) == r[1] = "Err"

\* JSON values of a payload
JNull == <<"null">>
JStr(s) == <<"str", s>>
JNum(n) == <<"num", n>>
JArr(s) == <<"arr", s>>
IsJStr(v) == v[1] = "str"
IsJArr(v) == v[1] = "arr"

Has(p, f) == f \in DOMAIN p
Without(p, fs) == [f \in (DOMAIN p) \ fs |-> p[f]]
WithField(p, f, v) == [g \in (DOMAIN p) \cup {f} |-> IF g = f THEN v ELSE p[g]]

(***************************************************************************)
(* Action: the permission enumeration and its wire tokens                  *)
(***************************************************************************)
Action == {"All", "Search", "DocumentsAdd", "DocumentsGet", "DocumentsDelete",
           "IndexesCreate", "IndexesGet", "IndexesUpdate", "IndexesDelete",
           "TasksGet", "SettingsGet", "SettingsUpdate", "StatsGet",
           "DumpsCreate", "DumpsGet", "Version"}

\* Serialize for Action: the #[serde(rename = ...)] token of each variant
ActionToken(a) ==
    CASE a = "All" -> "*"
      [] a = "Search" -> "search"
      [] a = "DocumentsAdd" -> "documents.add"
      [] a = "DocumentsGet" -> "documents.get"
      [] a = "DocumentsDelete" -> "documents.delete"
      [] a = "IndexesCreate" -> "indexes.create"
      [] a = "IndexesGet" -> "indexes.get"
      [] a = "IndexesUpdate" -> "indexes.update"
      [] a = "IndexesDelete" -> "indexes.delete"
      [] a = "TasksGet" -> "tasks.get"
      [] a = "SettingsGet" -> "settings.get"
      [] a = "SettingsUpdate" -> "settings.update"
      [] a = "StatsGet" -> "stats.get"
      [] a = "DumpsCreate" -> "dumps.create"
      [] a = "DumpsGet" -> "dumps.get"
      [] a = "Version" -> "version"

\* mutant: an unknown token falls back to the catch-all variant
DecodeActionCatchAll(tok) ==
    CASE tok = "*" -> Ok("All")
      [] tok = "search" -> Ok("Search")
      [] tok = "documents.add" -> Ok("DocumentsAdd")
      [] tok = "documents.get" -> Ok("DocumentsGet")
      [] tok = "documents.delete" -> Ok("DocumentsDelete")
      [] tok = "indexes.create" -> Ok("IndexesCreate")
      [] tok = "indexes.get" -> Ok("IndexesGet")
      [] tok = "indexes.update" -> Ok("IndexesUpdate")
      [] tok = "indexes.delete" -> Ok("IndexesDelete")
      [] tok = "tasks.get" -> Ok("TasksGet")
      [] tok = "settings.get" -> Ok("SettingsGet")
      [] tok = "settings.update" -> Ok("SettingsUpdate")
      [] tok = "stats.get" -> Ok("StatsGet")
      [] tok = "dumps.create" -> Ok("DumpsCreate")
      [] tok = "dumps.get" -> Ok("DumpsGet")
      [] tok = "version" -> Ok("Version")
      [] OTHER -> Ok("All")

\* Deserialize for Action: the derived match on the token string; a token
\* outside the table is an unknown-variant error.
DecodeAction(tok) ==
    CASE tok = "*" -> Ok("All")
      [] tok = "search" -> Ok("Search")
      [] tok = "documents.add" -> Ok("DocumentsAdd")
      [] tok = "documents.get" -> Ok("DocumentsGet")
      [] tok = "documents.delete" -> Ok("DocumentsDelete")
      [] tok = "indexes.create" -> Ok("IndexesCreate")
      [] tok = "indexes.get" -> Ok("IndexesGet")
      [] tok = "indexes.update" -> Ok("IndexesUpdate")
      [] tok = "indexes.delete" -> Ok("IndexesDelete")
      [] tok = "tasks.get" -> Ok("TasksGet")
      [] tok = "settings.get" -> Ok("SettingsGet")
      [] tok = "settings.update" -> Ok("SettingsUpdate")
      [] tok = "stats.get" -> Ok("StatsGet")
      [] tok = "dumps.create" -> Ok("DumpsCreate")
      [] tok = "dumps.get" -> Ok("DumpsGet")
      [] tok = "version" -> Ok("Version")
      [] OTHER -> Err("unknown variant")

\* The fixed token table and some tokens outside it
WireTokens == {ActionToken(a) : a \in Action}
UnknownTokens == {"All", "documents.*", "keys.get", ""}

(***************************************************************************)
(* Timestamps: OffsetDateTime values and their RFC3339 text                *)
(***************************************************************************)
\* An OffsetDateTime: a civil date and time with a UTC offset in seconds
\* (UtcOffset::whole_seconds). Not every value has an RFC3339 form: the
\* year can be negative and the offset can reach 24 hours or have a seconds
\* part.
DateTime(y, mo, d, h, mi, sec, ns, off) ==
    [year |-> y, month |-> mo, day |-> d, hour |-> h, minute |-> mi,
     second |-> sec, nanosecond |-> ns, offset |-> off]

IsLeapYear(y) == (y % 4 = 0 /\ y % 100 # 0) \/ y % 400 = 0

DaysInMonth(y, mo) ==
    IF mo \in {4, 6, 9, 11} THEN 30
    ELSE IF mo = 2 THEN (IF IsLeapYear(y) THEN 29 ELSE 28)
    ELSE 31

CharAt(s, i) == SubSeq(s, i, i)
IsDigit(c) == c \in {"0", "1", "2", "3", "4", "5", "6", "7", "8", "9"}
DigitVal(c) ==
    CASE c = "0" -> 0 [] c = "1" -> 1 [] c = "2" -> 2 [] c = "3" -> 3
      [] c = "4" -> 4 [] c = "5" -> 5 [] c = "6" -> 6 [] c = "7" -> 7
      [] c = "8" -> 8 [] c = "9" -> 9
DigitChar(d) == CharAt("0123456789", d + 1)

\* exactly_n_digits: whether n digits start at position i, and their value
HasDigits(s, i, n) ==
    /\ i + n - 1 <= Len(s)
    /\ \A k \in i..(i + n - 1) : IsDigit(CharAt(s, k))

RECURSIVE NumAt(_, _, _)
NumAt(s, i, n) ==
    IF n = 0 THEN 0
    ELSE NumAt(s, i, n - 1) * 10 + DigitVal(CharAt(s, i + n - 1))

\* The first position at or after i that does not hold a digit
RECURSIVE DigitsEnd(_, _)
DigitsEnd(s, i) ==
    IF i <= Len(s) /\ IsDigit(CharAt(s, i)) THEN DigitsEnd(s, i + 1) ELSE i

\* The subsecond digits in positions i..e-1 as nanoseconds; digits past the
\* ninth are dropped
RECURSIVE NanosAt(_, _, _, _)
NanosAt(s, i, e, mult) ==
    IF i >= e \/ mult = 0 THEN 0
    ELSE DigitVal(CharAt(s, i)) * mult + NanosAt(s, i + 1, e, mult \div 10)

Pad2(n) == DigitChar(n \div 10) \o DigitChar(n % 10)
Pad4(n) == Pad2(n \div 100) \o Pad2(n % 100)

\* n written with the given number of digits, zero padded
RECURSIVE PadN(_, _)
PadN(n, width) ==
    IF width = 0 THEN "" ELSE PadN(n \div 10, width - 1) \o DigitChar(n % 10)

\* The nine subsecond digits with the trailing zeros removed
RECURSIVE Subsecond(_, _)
Subsecond(ns, width) ==
    IF ns % 10 = 0 /\ width > 1 THEN Subsecond(ns \div 10, width - 1)
    ELSE PadN(ns, width)

Abs(n) == IF n < 0 THEN -n ELSE n

\* The error of a component that has no RFC3339 form
CannotFormat(component) ==
    "The " \o component \o " component cannot be formatted into the requested format."

\* The text of a timestamp that has an RFC3339 form: the subsecond part is
\* written only when it is not zero, the offset is Z when it is UTC.
Rfc3339Text(t) ==
    Pad4(t.year) \o "-" \o Pad2(t.month) \o "-" \o Pad2(t.day) \o "T"
        \o Pad2(t.hour) \o ":" \o Pad2(t.minute) \o ":" \o Pad2(t.second)
        \o (IF t.nanosecond = 0 THEN "" ELSE "." \o Subsecond(t.nanosecond, 9))
        \o (IF t.offset = 0 THEN "Z"
            ELSE (IF t.offset < 0 THEN "-" ELSE "+")
                    \o Pad2(Abs(t.offset) \div 3600)
                    \o ":"
                    \o Pad2((Abs(t.offset) \div 60) % 60))

\* time::serde::rfc3339 formatting of a timestamp: an error when the year
\* is outside 0..9999, when the offset is 24 hours or more, or when the
\* offset has a seconds part, checked in that order; the text otherwise.
Rfc3339(t) ==
    IF t.year \notin 0..9999 THEN Err(CannotFormat("year"))
    ELSE IF Abs(t.offset) \div 3600 > 23 THEN Err(CannotFormat("offset_hour"))
    ELSE IF Abs(t.offset) % 60 # 0 THEN Err(CannotFormat("offset_second"))
    ELSE Ok(Rfc3339Text(t))

\* Whether hh:59:59.999999999 read with a second of 60 stands for a leap
\* second: in UTC it must be 23:59 on the last day of a month.
IsValidLeapSecond(y, mo, d, h, mi, off) ==
    LET utc == h * 60 + mi - off \div 60
    IN IF utc < 0 THEN utc + 1440 = 1439 /\ d = 1
       ELSE IF utc >= 1440 THEN utc - 1440 = 1439 /\ d + 1 = DaysInMonth(y, mo)
       ELSE utc = 1439 /\ d = DaysInMonth(y, mo)

\* Parsing of RFC3339 text: YYYY-MM-DD, one separator character, HH:MM:SS,
\* an optional subsecond part, then Z or z or a signed hh:mm offset, and
\* nothing after it. The components must be in range; a second of 60 is
\* read as the last nanosecond of second 59 when it is a leap second.
ParseRfc3339Text(s) ==
    IF ~(/\ Len(s) >= 20
         /\ HasDigits(s, 1, 4) /\ CharAt(s, 5) = "-"
         /\ HasDigits(s, 6, 2) /\ CharAt(s, 8) = "-"
         /\ HasDigits(s, 9, 2)
         /\ HasDigits(s, 12, 2) /\ CharAt(s, 14) = ":"
         /\ HasDigits(s, 15, 2) /\ CharAt(s, 17) = ":"
         /\ HasDigits(s, 18, 2))
    THEN Err("invalid rfc3339")
    ELSE
    LET y == NumAt(s, 1, 4)
        mo == NumAt(s, 6, 2)
        d == NumAt(s, 9, 2)
        h == NumAt(s, 12, 2)
        mi == NumAt(s, 15, 2)
        sec == NumAt(s, 18, 2)
        hasFrac == CharAt(s, 20) = "."
        fracEnd == IF hasFrac THEN DigitsEnd(s, 21) ELSE 20
        ns == IF hasFrac THEN NanosAt(s, 21, fracEnd, 100000000) ELSE 0
        isZ == fracEnd <= Len(s) /\ CharAt(s, fracEnd) \in {"Z", "z"}
        hasOff == /\ fracEnd + 5 <= Len(s)
                  /\ CharAt(s, fracEnd) \in {"+", "-"}
                  /\ HasDigits(s, fracEnd + 1, 2)
                  /\ CharAt(s, fracEnd + 3) = ":"
                  /\ HasDigits(s, fracEnd + 4, 2)
        offH == NumAt(s, fracEnd + 1, 2)
        offM == NumAt(s, fracEnd + 4, 2)
        off == IF isZ THEN 0
               ELSE IF CharAt(s, fracEnd) = "-" THEN -(offH * 3600 + offM * 60)
               ELSE offH * 3600 + offM * 60
        end == IF isZ THEN fracEnd + 1 ELSE fracEnd + 6
    IN IF /\ (hasFrac => fracEnd > 21)
          /\ (isZ \/ (hasOff /\ offH <= 23 /\ offM <= 59))
          /\ end = Len(s) + 1
          /\ mo \in 1..12
          /\ d \in 1..DaysInMonth(y, mo)
          /\ h <= 23 /\ mi <= 59
          /\ (sec <= 59 \/ (sec = 60 /\ IsValidLeapSecond(y, mo, d, h, mi, off)))
       THEN Ok(DateTime(y, mo, d, h, mi,
                        IF sec = 60 THEN 59 ELSE sec,
                        IF sec = 60 THEN 999999999 ELSE ns, off))
       ELSE Err("invalid rfc3339")

\* time::serde::rfc3339 deserialization of a JSON value: only a string is
\* accepted and it is parsed as RFC3339 text
ParseRfc3339(v) ==
    IF ~IsJStr(v) THEN Err("invalid type") ELSE ParseRfc3339Text(v[2])

\* time::serde::rfc3339::option: None is written as null, a timestamp as
\* its RFC3339 text; a timestamp without one is a serialization error
SerializeTimeOption(o) ==
    IF o = None THEN Ok(JNull)
    ELSE IF IsErr(Rfc3339(Unwrap(o))) THEN Rfc3339(Unwrap(o))
    ELSE Ok(JStr(Rfc3339(Unwrap(o))[2]))

\* Option<String>: None is written as null
SerializeStringOption(o) == IF IsSome(o) THEN JStr(Unwrap(o)) ELSE JNull

\* Vec<Action>: an array of tokens
SerializeActions(as) == JArr([i \in 1..Len(as) |-> JStr(ActionToken(as[i]))])
\* Vec<String>: an array of strings
SerializeStrings(ss) == JArr([i \in 1..Len(ss) |-> JStr(ss[i])])

(***************************************************************************)
(* Key: write path (derived Serialize) and read path (derived Deserialize) *)
(***************************************************************************)
\* mutant: the read-only fields are written too
SerializeKeyWithManaged(k) ==
    IF IsErr(SerializeTimeOption(k.expires_at)) THEN SerializeTimeOption(k.expires_at)
    ELSE Ok([f \in {"actions", "createdAt", "description", "name", "expiresAt",
                    "indexes", "key", "updatedAt"} |->
        CASE f = "actions" -> SerializeActions(k.actions)
          [] f = "createdAt" -> JStr(Rfc3339Text(k.created_at))
          [] f = "description" -> SerializeStringOption(k.description)
          [] f = "name" -> SerializeStringOption(k.name)
          [] f = "expiresAt" -> SerializeTimeOption(k.expires_at)[2]
          [] f = "indexes" -> SerializeStrings(k.indexes)
          [] f = "key" -> JStr(k.key)
          [] f = "updatedAt" -> JStr(Rfc3339Text(k.updated_at))])

\* mutant: expires_at gets skip_serializing_if = "Option::is_none"
SerializeKeySkipExpiry(k) ==
    IF IsErr(SerializeTimeOption(k.expires_at)) THEN SerializeTimeOption(k.expires_at)
    ELSE Ok([f \in {"description", "name"}
                   \cup (IF k.actions # <<>> THEN {"actions"} ELSE {})
                   \cup (IF IsSome(k.expires_at) THEN {"expiresAt"} ELSE {})
                   \cup (IF k.indexes # <<>> THEN {"indexes"} ELSE {}) |->
        CASE f = "actions" -> SerializeActions(k.actions)
          [] f = "description" -> SerializeStringOption(k.description)
          [] f = "name" -> SerializeStringOption(k.name)
          [] f = "expiresAt" -> SerializeTimeOption(k.expires_at)[2]
          [] f = "indexes" -> SerializeStrings(k.indexes)])

\* Serialize for Key, rename_all = "camelCase": actions and indexes are
\* skipped when empty, created_at, key and updated_at are always skipped,
\* description, name and expires_at are always written (null for None).
\* The error of a field that cannot be serialized is the result and there
\* is no payload.
SerializeKey(k) ==
    IF IsErr(SerializeTimeOption(k.expires_at)) THEN SerializeTimeOption(k.expires_at)
    ELSE Ok([f \in {"description", "name", "expiresAt"}
                   \cup (IF k.actions # <<>> THEN {"actions"} ELSE {})
                   \cup (IF k.indexes # <<>> THEN {"indexes"} ELSE {}) |->
        CASE f = "actions" -> SerializeActions(k.actions)
          [] f = "description" -> SerializeStringOption(k.description)
          [] f = "name" -> SerializeStringOption(k.name)
          [] f = "expiresAt" -> SerializeTimeOption(k.expires_at)[2]
          [] f = "indexes" -> SerializeStrings(k.indexes)])

\* The wire names of the fields of Key and how each is read
KeyWireFields == <<"actions", "createdAt", "description", "name",
                   "expiresAt", "indexes", "key", "updatedAt">>

\* Fields whose absence the derived Deserialize tolerates: a plain Option
\* field is None when missing; a Vec, a String and every field read through
\* `with = ...` is a missing-field error.
KeyOptionalWireFields == {"description", "name"}

AllJStr(s) == \A i \in 1..Len(s) : IsJStr(s[i])

\* Whether a present field carries a value its type accepts
KeyFieldValid(f, v) ==
    CASE f = "actions" ->
            /\ IsJArr(v)
            /\ AllJStr(v[2])
            /\ \A i \in 1..Len(v[2]) : IsOk(DecodeAction(v[2][i][2]))
      [] f \in {"createdAt", "updatedAt"} -> IsOk(ParseRfc3339(v))
      [] f \in {"description", "name"} -> v = JNull \/ IsJStr(v)
      [] f = "expiresAt" -> v = JNull \/ IsOk(ParseRfc3339(v))
      [] f = "indexes" -> IsJArr(v) /\ AllJStr(v[2])
      [] f = "key" -> IsJStr(v)

DecodeStringOption(p, f) ==
    IF Has(p, f) /\ p[f] # JNull THEN Some(p[f][2]) ELSE None

DecodeTimeOption(v) == IF v = JNull THEN None ELSE Some(ParseRfc3339(v)[2])

\* The first field, in declaration order, that is required and missing
RECURSIVE FirstMissing(_, _)
FirstMissing(p, i) ==
    IF i > Len(KeyWireFields) THEN None
    ELSE IF ~Has(p, KeyWireFields[i]) /\ KeyWireFields[i] \notin KeyOptionalWireFields
         THEN Some(KeyWireFields[i])
         ELSE FirstMissing(p, i + 1)

\* The Key built from a payload that has every required field, all valid
KeyOfPayload(p) ==
    [actions |-> [i \in 1..Len(p["actions"][2]) |-> DecodeAction(p["actions"][2][i][2])[2]],
     created_at |-> ParseRfc3339(p["createdAt"])[2],
     description |-> DecodeStringOption(p, "description"),
     name |-> DecodeStringOption(p, "name"),
     expires_at |-> DecodeTimeOption(p["expiresAt"]),
     indexes |-> [i \in 1..Len(p["indexes"][2]) |-> p["indexes"][2][i][2]],
     key |-> p["key"][2],
     updated_at |-> ParseRfc3339(p["updatedAt"])[2]]

\* Deserialize for Key: unknown fields are ignored, a present field with a
\* value of the wrong type is an error, then the missing fields are resolved
\* in declaration order.
DeserializeKey(p) ==
    IF \E i \in 1..Len(KeyWireFields) :
            /\ Has(p, KeyWireFields[i])
            /\ ~KeyFieldValid(KeyWireFields[i], p[KeyWireFields[i]])
    THEN Err(<<"invalid value">>)
    ELSE IF IsSome(FirstMissing(p, 1))
         THEN Err(<<"missing field", Unwrap(FirstMissing(p, 1))>>)
         ELSE Ok(KeyOfPayload(p))

(***************************************************************************)
(* KeyBuilder and KeysQuery: write path                                    *)
(***************************************************************************)
\* mutant: the empty sequences and the absent expiry are skipped
SerializeKeyBuilderSkipping(b) ==
    IF IsErr(SerializeTimeOption(b.expires_at)) THEN SerializeTimeOption(b.expires_at)
    ELSE Ok([f \in {"description"}
                   \cup (IF b.actions # <<>> THEN {"actions"} ELSE {})
                   \cup (IF IsSome(b.expires_at) THEN {"expiresAt"} ELSE {})
                   \cup (IF b.indexes # <<>> THEN {"indexes"} ELSE {}) |->
        CASE f = "actions" -> SerializeActions(b.actions)
          [] f = "description" -> SerializeStringOption(b.description)
          [] f = "expiresAt" -> SerializeTimeOption(b.expires_at)[2]
          [] f = "indexes" -> SerializeStrings(b.indexes)])

\* Serialize for KeyBuilder, rename_all = "camelCase": the four fields are
\* always written, an empty Vec as an empty array and None as null. The
\* error of a field that cannot be serialized is the result and there is no
\* payload.
SerializeKeyBuilder(b) ==
    IF IsErr(SerializeTimeOption(b.expires_at)) THEN SerializeTimeOption(b.expires_at)
    ELSE Ok([f \in {"actions", "description", "expiresAt", "indexes"} |->
        CASE f = "actions" -> SerializeActions(b.actions)
          [] f = "description" -> SerializeStringOption(b.description)
          [] f = "expiresAt" -> SerializeTimeOption(b.expires_at)[2]
          [] f = "indexes" -> SerializeStrings(b.indexes)])

\* mutant: offset and limit are always written and the client is not skipped
SerializeKeysQueryAll(q) ==
    Ok([f \in {"client", "offset", "limit"} |->
        CASE f = "client" -> JStr(q.client)
          [] f = "offset" -> IF IsSome(q.offset) THEN JNum(Unwrap(q.offset)) ELSE JNull
          [] f = "limit" -> IF IsSome(q.limit) THEN JNum(Unwrap(q.limit)) ELSE JNull])

\* Serialize for KeysQuery: client is always skipped, offset and limit are
\* skipped when None.
SerializeKeysQuery(q) ==
    Ok([f \in (IF IsSome(q.offset) THEN {"offset"} ELSE {})
               \cup (IF IsSome(q.limit) THEN {"limit"} ELSE {}) |->
        CASE f = "offset" -> JNum(Unwrap(q.offset))
          [] f = "limit" -> JNum(Unwrap(q.limit))])

(***************************************************************************)
(* Inputs of a caller session                                              *)
(***************************************************************************)
SampleActions == {"Search", "DocumentsAdd"}
SampleActionLists == {<<>>, <<"DocumentsAdd", "All">>}
SampleIndexes == {"*"}
SampleIndexLists == {<<>>, <<"movies">>, <<"*", "test">>}
\* with_expires_at takes any OffsetDateTime: one with an RFC3339 form and
\* one with an offset of 24 hours
SampleTimes == {DateTime(2024, 2, 29, 13, 5, 9, 120000000, 5400),
                DateTime(2024, 5, 6, 7, 8, 9, 0, 86400)}
SampleTexts == {"B", "C"}
SampleOffsets == {0, 1}
SampleLimits == {2, 20}

\* A complete key resource as the server sends it
FullPayload ==
    [actions |-> JArr(<<JStr("search"), JStr("documents.add")>>),
     createdAt |-> JStr("1970-01-01T00:00:00Z"),
     description |-> JStr("A"),
     name |-> JNull,
     expiresAt |-> JStr("2030-01-01T00:00:00Z"),
     indexes |-> JArr(<<JStr("*")>>),
     key |-> JStr("d0552b41"),
     updatedAt |-> JStr("1970-01-02T00:00:00Z")]

\* A key resource with no actions, no indexes and no expiry
BarePayload ==
    [actions |-> JArr(<<>>),
     createdAt |-> JStr("1970-01-01T00:00:00.000+00:00"),
     description |-> JNull,
     name |-> JStr("bare"),
     expiresAt |-> JNull,
     indexes |-> JArr(<<>>),
     key |-> JStr("7c1e9a02"),
     updatedAt |-> JStr("1970-01-01t01:00:00+01:00")]

\* Server payloads handed to the Key deserializer: the complete resource
\* with any set of fields left out, and resources with other values
ServerPayloads ==
    {Without(FullPayload, fs) : fs \in SUBSET (DOMAIN FullPayload)}
    \cup {BarePayload,
          Without(BarePayload, {"actions"}),
          Without(BarePayload, {"indexes"}),
          WithField(FullPayload, "uid", JStr("7")),
          WithField(FullPayload, "actions", JArr(<<JStr("keys.get")>>)),
          WithField(FullPayload, "actions", JNull),
          WithField(FullPayload, "indexes", JStr("*")),
          WithField(FullPayload, "description", JNum(1)),
          WithField(FullPayload, "key", JNull),
          WithField(FullPayload, "createdAt", JNum(0)),
          WithField(FullPayload, "createdAt", JStr("1970-01-01")),
          WithField(FullPayload, "updatedAt", JStr("1970-02-30T00:00:00Z")),
          WithField(FullPayload, "expiresAt", JStr("2030-01-01T00:00:00.5-03:30")),
          WithField(Without(FullPayload, {"actions"}), "key", JNum(1))}

\* The Keys a caller session starts with: read from server responses, and
\* one whose public expires_at field the caller has assigned a timestamp
\* with an offset that has a seconds part
SessionKeys ==
    {DeserializeKey(FullPayload)[2],
     DeserializeKey(BarePayload)[2],
     [DeserializeKey(FullPayload)[2] EXCEPT
        !.expires_at = Some(DateTime(2024, 5, 6, 7, 8, 9, 0, 5415))]}

SampleKey == DeserializeKey(FullPayload)[2]

Errors == {"transport", "server"}
KeyResponses == {Ok(SampleKey)} \cup {Err(e) : e \in Errors}
ListResponses ==
    {Ok([results |-> <<SampleKey>>, limit |-> 20, offset |-> 0])}
        \cup {Err(e) : e \in Errors}

(***************************************************************************)
(* The Client collaborator                                                 *)
(***************************************************************************)
\* One call received by the Client on behalf of invocation i: the call is
\* recorded with the object it was given and the result of serializing it,
\* the body the Client sends or the serialization error.
ClientCall(i, method, arg, body) ==
    requests' = [requests EXCEPT ![i] =
                    Append(@, [by |-> i, method |-> method, arg |-> arg, body |-> body])]

Client_update_key(i, k) == ClientCall(i, "update_key", k, SerializeKey(k))
Client_create_key(i, b) == ClientCall(i, "create_key", b, SerializeKeyBuilder(b))
Client_execute_get_keys(i, q) ==
    ClientCall(i, "execute_get_keys", q, SerializeKeysQuery(q))

\* The Client's call made for invocation i resolves to resp. A call whose
\* body could not be serialized has sent nothing to the server: it does not
\* resolve to a value from the server.
ClientRespond(i, resp) ==
    /\ IsErr(requests[i][1].body) => IsErr(resp)
    /\ responses' = [responses EXCEPT ![i] = Append(@, resp)]

(***************************************************************************)
(* Futures: update and execute are async                                   *)
(***************************************************************************)
\* The future an async fn returns has done nothing yet ("created"). Its
\* first poll makes the Client call and suspends ("pending"); when the
\* Client's call resolves the future returns that value ("done"). A future
\* can be dropped before it is done ("dropped"). A future borrows the
\* object it was called on until it is done or dropped.
NewFuture(method) == [method |-> method, state |-> "created", returned |-> None]

Live(method) ==
    \E i \in 1..Len(futures) :
        futures[i].method = method /\ futures[i].state \in {"created", "pending"}

\* The future of the async fn called
Called(method) ==
    /\ futures' = Append(futures, NewFuture(method))
    /\ requests' = Append(requests, <<>>)
    /\ responses' = Append(responses, <<>>)

Suspended(i) == futures' = [futures EXCEPT ![i].state = "pending"]

Returned(i, value) ==
    futures' = [futures EXCEPT ![i].state = "done", ![i].returned = Some(value)]

\* A future that is not done is dropped: nothing more happens for it
Future_drop ==
    \E i \in 1..Len(futures) :
        /\ futures[i].state \in {"created", "pending"}
        /\ futures' = [futures EXCEPT ![i].state = "dropped"]
        /\ UNCHANGED <<builder, builderCalls, key, parsed, query, queryCalls,
                       requests, responses, steps, codecIn, codecOut>>

(***************************************************************************)
(* KeyBuilder                                                              *)
(***************************************************************************)
KeyBuilder_new ==
    [actions |-> <<>>, description |-> None, expires_at |-> None, indexes |-> <<>>]

RestOfSession == <<key, parsed, query, queryCalls, codecIn, codecOut>>
NoSubmission == <<futures, requests, responses>>

\* The mutators take &mut self: they cannot run while a future of execute
\* borrows the builder.
KeyBuilder_with_actions ==
    \E acts \in SampleActionLists :
        /\ steps < MaxSteps
        /\ ~Live("create_key")
        /\ builder' = [builder EXCEPT !.actions = builder.actions \o acts]
        /\ builderCalls' = Append(builderCalls, <<"with_actions", acts>>)
        /\ steps' = steps + 1
        /\ UNCHANGED <<RestOfSession, NoSubmission>>

KeyBuilder_with_action ==
    \E action \in SampleActions :
        /\ steps < MaxSteps
        /\ ~Live("create_key")
        /\ builder' = [builder EXCEPT !.actions = Append(builder.actions, action)]
        /\ builderCalls' = Append(builderCalls, <<"with_action", action>>)
        /\ steps' = steps + 1
        /\ UNCHANGED <<RestOfSession, NoSubmission>>

KeyBuilder_with_expires_at ==
    \E expires_at \in SampleTimes :
        /\ steps < MaxSteps
        /\ ~Live("create_key")
        /\ builder' = [builder EXCEPT !.expires_at = Some(expires_at)]
        /\ builderCalls' = Append(builderCalls, <<"with_expires_at", expires_at>>)
        /\ steps' = steps + 1
        /\ UNCHANGED <<RestOfSession, NoSubmission>>

\* mutant: with_indexes extends the sequence like with_actions does
KeyBuilder_with_indexes_extend ==
    \E indexes \in SampleIndexLists :
        /\ steps < MaxSteps
        /\ ~Live("create_key")
        /\ builder' = [builder EXCEPT !.indexes = builder.indexes \o indexes]
        /\ builderCalls' = Append(builderCalls, <<"with_indexes", indexes>>)
        /\ steps' = steps + 1
        /\ UNCHANGED <<RestOfSession, NoSubmission>>

KeyBuilder_with_indexes ==
    \E indexes \in SampleIndexLists :
        /\ steps < MaxSteps
        /\ ~Live("create_key")
        /\ builder' = [builder EXCEPT !.indexes = indexes]
        /\ builderCalls' = Append(builderCalls, <<"with_indexes", indexes>>)
        /\ steps' = steps + 1
        /\ UNCHANGED <<RestOfSession, NoSubmission>>

KeyBuilder_with_index ==
    \E index \in SampleIndexes :
        /\ steps < MaxSteps
        /\ ~Live("create_key")
        /\ builder' = [builder EXCEPT !.indexes = Append(builder.indexes, index)]
        /\ builderCalls' = Append(builderCalls, <<"with_index", index>>)
        /\ steps' = steps + 1
        /\ UNCHANGED <<RestOfSession, NoSubmission>>

\* execute(&self, client) is called: the future of
\* client.create_key(self).await is returned, nothing has run yet
KeyBuilder_execute_call ==
    /\ steps < MaxSteps
    /\ Called("create_key")
    /\ builderCalls' = Append(builderCalls, <<"execute", Len(futures) + 1>>)
    /\ steps' = steps + 1
    /\ UNCHANGED <<builder, RestOfSession>>

\* mutant: execute takes the contents of the builder, leaving it empty
KeyBuilder_execute_poll_take ==
    \E i \in 1..Len(futures) :
        /\ futures[i].method = "create_key"
        /\ futures[i].state = "created"
        /\ Client_create_key(i, builder)
        /\ Suspended(i)
        /\ builder' = KeyBuilder_new
        /\ UNCHANGED <<builderCalls, RestOfSession, responses, steps>>

\* first poll: client.create_key(self) is called and awaited
KeyBuilder_execute_poll ==
    \E i \in 1..Len(futures) :
        /\ futures[i].method = "create_key"
        /\ futures[i].state = "created"
        /\ Client_create_key(i, builder)
        /\ Suspended(i)
        /\ UNCHANGED <<builder, builderCalls, RestOfSession, responses, steps>>

\* mutant: a failed create is retried once and the error is replaced
KeyBuilder_execute_return_retry ==
    \E i \in 1..Len(futures), resp \in KeyResponses :
        /\ futures[i].method = "create_key"
        /\ futures[i].state = "pending"
        /\ ClientRespond(i, resp)
        /\ IF IsErr(resp)
           THEN /\ Client_create_key(i, builder)
                /\ Returned(i, Err("gave up"))
           ELSE /\ Returned(i, resp)
                /\ UNCHANGED requests
        /\ UNCHANGED <<builder, builderCalls, RestOfSession, steps>>

\* the awaited call resolves: its value is the value of execute
KeyBuilder_execute_return ==
    \E i \in 1..Len(futures), resp \in KeyResponses :
        /\ futures[i].method = "create_key"
        /\ futures[i].state = "pending"
        /\ ClientRespond(i, resp)
        /\ Returned(i, resp)
        /\ UNCHANGED <<builder, builderCalls, RestOfSession, requests, steps>>

KeyBuilder_execute ==
    \/ KeyBuilder_execute_call
    \/ KeyBuilder_execute_poll
    \/ KeyBuilder_execute_return

(***************************************************************************)
(* Key                                                                     *)
(***************************************************************************)
BuilderAndQuery == <<builder, builderCalls, query, queryCalls, codecIn, codecOut>>

\* with_description and with_name take &mut self: they cannot run while a
\* future of update borrows the Key.
Key_with_description ==
    \E desc \in SampleTexts :
        /\ steps < MaxSteps
        /\ IsSome(key)
        /\ ~Live("update_key")
        /\ key' = Some([Unwrap(key) EXCEPT !.description = Some(desc)])
        /\ steps' = steps + 1
        /\ UNCHANGED <<parsed, BuilderAndQuery, NoSubmission>>

Key_with_name ==
    \E desc \in SampleTexts :
        /\ steps < MaxSteps
        /\ IsSome(key)
        /\ ~Live("update_key")
        /\ key' = Some([Unwrap(key) EXCEPT !.name = Some(desc)])
        /\ steps' = steps + 1
        /\ UNCHANGED <<parsed, BuilderAndQuery, NoSubmission>>

\* update(&self, client) is called: the future of
\* client.update_key(self).await is returned, nothing has run yet
Key_update_call ==
    /\ steps < MaxSteps
    /\ IsSome(key)
    /\ Called("update_key")
    /\ steps' = steps + 1
    /\ UNCHANGED <<key, parsed, BuilderAndQuery>>

\* first poll: client.update_key(self) is called and awaited
Key_update_poll ==
    \E i \in 1..Len(futures) :
        /\ futures[i].method = "update_key"
        /\ futures[i].state = "created"
        /\ Client_update_key(i, Unwrap(key))
        /\ Suspended(i)
        /\ UNCHANGED <<key, parsed, BuilderAndQuery, responses, steps>>

\* the awaited call resolves: its value is the value of update
Key_update_return ==
    \E i \in 1..Len(futures), resp \in KeyResponses :
        /\ futures[i].method = "update_key"
        /\ futures[i].state = "pending"
        /\ ClientRespond(i, resp)
        /\ Returned(i, resp)
        /\ UNCHANGED <<key, parsed, BuilderAndQuery, requests, steps>>

Key_update ==
    \/ Key_update_call
    \/ Key_update_poll
    \/ Key_update_return

\* Deserialize for Key applied to a server payload; the caller keeps the
\* Key of a successful read.
Key_deserialize ==
    /\ IsSome(parsed)
    /\ Unwrap(parsed).result = None
    /\ parsed' = Some([payload |-> Unwrap(parsed).payload,
                       result |-> Some(DeserializeKey(Unwrap(parsed).payload))])
    /\ key' = IF IsOk(DeserializeKey(Unwrap(parsed).payload))
              THEN Some(DeserializeKey(Unwrap(parsed).payload)[2])
              ELSE key
    /\ UNCHANGED <<BuilderAndQuery, NoSubmission, steps>>

(***************************************************************************)
(* KeysQuery                                                               *)
(***************************************************************************)
KeysQuery_new(client) == [client |-> client, offset |-> None, limit |-> None]

BuilderAndKey == <<builder, builderCalls, key, parsed, codecIn, codecOut>>

\* with_offset and with_limit take &mut self: they cannot run while a
\* future of execute borrows the query.
KeysQuery_with_offset ==
    \E offset \in SampleOffsets :
        /\ steps < MaxSteps
        /\ ~Live("execute_get_keys")
        /\ query' = [query EXCEPT !.offset = Some(offset)]
        /\ queryCalls' = Append(queryCalls, <<"with_offset", offset>>)
        /\ steps' = steps + 1
        /\ UNCHANGED <<BuilderAndKey, NoSubmission>>

KeysQuery_with_limit ==
    \E limit \in SampleLimits :
        /\ steps < MaxSteps
        /\ ~Live("execute_get_keys")
        /\ query' = [query EXCEPT !.limit = Some(limit)]
        /\ queryCalls' = Append(queryCalls, <<"with_limit", limit>>)
        /\ steps' = steps + 1
        /\ UNCHANGED <<BuilderAndKey, NoSubmission>>

\* execute(&self) is called: the future of
\* self.client.execute_get_keys(self).await is returned, nothing has run yet
KeysQuery_execute_call ==
    /\ steps < MaxSteps
    /\ Called("execute_get_keys")
    /\ queryCalls' = Append(queryCalls, <<"execute", Len(futures) + 1>>)
    /\ steps' = steps + 1
    /\ UNCHANGED <<query, BuilderAndKey>>

\* first poll: self.client.execute_get_keys(self) is called and awaited
KeysQuery_execute_poll ==
    \E i \in 1..Len(futures) :
        /\ futures[i].method = "execute_get_keys"
        /\ futures[i].state = "created"
        /\ Client_execute_get_keys(i, query)
        /\ Suspended(i)
        /\ UNCHANGED <<query, queryCalls, BuilderAndKey, responses, steps>>

\* the awaited call resolves: its value is the value of execute
KeysQuery_execute_return ==
    \E i \in 1..Len(futures), resp \in ListResponses :
        /\ futures[i].method = "execute_get_keys"
        /\ futures[i].state = "pending"
        /\ ClientRespond(i, resp)
        /\ Returned(i, resp)
        /\ UNCHANGED <<query, queryCalls, BuilderAndKey, requests, steps>>

KeysQuery_execute ==
    \/ KeysQuery_execute_call
    \/ KeysQuery_execute_poll
    \/ KeysQuery_execute_return

(***************************************************************************)
(* The caller session                                                      *)
(***************************************************************************)
Init ==
    /\ builder = KeyBuilder_new
    /\ builderCalls = <<>>
    /\ key \in {Some(k) : k \in SessionKeys}
    /\ parsed = None
    /\ query = KeysQuery_new("client")
    /\ queryCalls = <<>>
    /\ futures = <<>>
    /\ requests = <<>>
    /\ responses = <<>>
    /\ steps = 0
    /\ codecIn = None
    /\ codecOut = None

Next ==
    \/ KeyBuilder_with_actions
    \/ KeyBuilder_with_action
    \/ KeyBuilder_with_expires_at
    \/ KeyBuilder_with_indexes
    \/ KeyBuilder_with_index
    \/ KeyBuilder_execute
    \/ Key_with_description
    \/ Key_with_name
    \/ Key_update
    \/ KeysQuery_with_offset
    \/ KeysQuery_with_limit
    \/ KeysQuery_execute
    \/ Future_drop

Spec == Init /\ [][Next]_vars

(***************************************************************************)
(* The read path on its own: every server payload                          *)
(***************************************************************************)
InitRead ==
    /\ builder = KeyBuilder_new
    /\ builderCalls = <<>>
    /\ key = None
    /\ parsed \in {Some([payload |-> p, result |-> None]) : p \in ServerPayloads}
    /\ query = KeysQuery_new("client")
    /\ queryCalls = <<>>
    /\ futures = <<>>
    /\ requests = <<>>
    /\ responses = <<>>
    /\ steps = 0
    /\ codecIn = None
    /\ codecOut = None

NextRead == Key_deserialize

SpecRead == InitRead /\ [][NextRead]_vars

(***************************************************************************)
(* The Action codec on its own: every variant pair and every token         *)
(***************************************************************************)
InitCodec ==
    /\ builder = KeyBuilder_new
    /\ builderCalls = <<>>
    /\ key = None
    /\ parsed = None
    /\ query = KeysQuery_new("client")
    /\ queryCalls = <<>>
    /\ futures = <<>>
    /\ requests = <<>>
    /\ responses = <<>>
    /\ steps = 0
    /\ codecIn \in {[a |-> a, b |-> b, tok |-> t] :
                        a \in Action, b \in Action, t \in WireTokens \cup UnknownTokens}
    /\ codecOut = None

\* Encode both variants, decode the first one's token and decode the token
Codec ==
    /\ codecOut = None
    /\ codecOut' = Some([encA |-> ActionToken(codecIn.a),
                         encB |-> ActionToken(codecIn.b),
                         roundTrip |-> DecodeAction(ActionToken(codecIn.a)),
                         decoded |-> DecodeAction(codecIn.tok)])
    /\ UNCHANGED <<builder, builderCalls, key, parsed, query, queryCalls,
                   futures, requests, responses, steps, codecIn>>

NextCodec == Codec

SpecCodec == InitCodec /\ [][NextCodec]_vars

(***************************************************************************)
(* Properties                                                              *)
(***************************************************************************)
Elems(s) == {s[i] : i \in 1..Len(s)}
AllRequests == UNION {Elems(requests[i]) : i \in 1..Len(requests)}
RequestsOf(m) == {r \in AllRequests : r.method = m}
WriteRequests == RequestsOf("create_key") \cup RequestsOf("update_key")

\* The requests whose object was serialized, and the payload of one
Sent(m) == {r \in RequestsOf(m) : IsOk(r.body)}
SentWrites == {r \in WriteRequests : IsOk(r.body)}
Payload(r) == r.body[2]

\* Position of the last call named op in a history, 0 when there is none
LastPos(h, op) ==
    LET S == {i \in 1..Len(h) : h[i][1] = op}
    IN IF S = {} THEN 0 ELSE CHOOSE i \in S : \A j \in S : j <= i

\* The calls of a history made before the execute of invocation i
Before(h, i) ==
    LET k == CHOOSE k \in 1..Len(h) : h[k][1] = "execute" /\ h[k][2] = i
    IN SubSeq(h, 1, k - 1)

\* What a history of calls on a fresh KeyBuilder should leave in each field
RECURSIVE ActionsOf(_)
ActionsOf(h) ==
    IF h = <<>> THEN <<>>
    ELSE LET c == h[Len(h)]
         IN ActionsOf(SubSeq(h, 1, Len(h) - 1))
                \o (IF c[1] = "with_action" THEN <<c[2]>>
                    ELSE IF c[1] = "with_actions" THEN c[2] ELSE <<>>)

IndexesOf(h) ==
    LET j == LastPos(h, "with_indexes")
        base == IF j = 0 THEN <<>> ELSE h[j][2]
        later == SelectSeq(SubSeq(h, j + 1, Len(h)), LAMBDA c : c[1] = "with_index")
    IN base \o [i \in 1..Len(later) |-> later[i][2]]

ExpiryOf(h) ==
    LET j == LastPos(h, "with_expires_at") IN IF j = 0 THEN None ELSE Some(h[j][2])

BuilderAfter(h) ==
    [actions |-> ActionsOf(h), description |-> None,
     expires_at |-> ExpiryOf(h), indexes |-> IndexesOf(h)]

ManagedWireFields == {"key", "createdAt", "updatedAt"}

\* C1: the payload of an update request, and the serialized form of any Key
\* the caller holds, never contains the fields key, createdAt or updatedAt.
C1_NoManagedFieldsOnWrite ==
    /\ \A r \in RequestsOf("update_key") :
            /\ r.body = SerializeKey(r.arg)
            /\ IsOk(r.body) => (DOMAIN Payload(r)) \cap ManagedWireFields = {}
    /\ (IsSome(key) /\ IsOk(SerializeKey(Unwrap(key)))) =>
            (DOMAIN SerializeKey(Unwrap(key))[2]) \cap ManagedWireFields = {}

C1_Witness ==
    \E r \in Sent("update_key") :
        /\ r.arg.key = "d0552b41"
        /\ r.arg.created_at = DateTime(1970, 1, 1, 0, 0, 0, 0, 0)
        /\ r.arg.description = Some("B")
        /\ Payload(r)["description"] = JStr("B")

\* C2 as stated: on create and update requests alike, actions is absent from
\* the payload when the actions sequence is empty and indexes is absent when
\* the indexes sequence is empty.
C2_OmittedOnBothPaths ==
    \A r \in SentWrites :
        /\ r.arg.actions = <<>> => ~Has(Payload(r), "actions")
        /\ r.arg.indexes = <<>> => ~Has(Payload(r), "indexes")

\* C2 amended: the payload of an update request (serialized Key) omits
\* actions and indexes exactly when the sequence is empty and never has an
\* empty array; the payload of a create request (serialized KeyBuilder)
\* always has both fields, as an empty array when the sequence is empty.
C2_OmittedOnUpdateOnly ==
    /\ \A r \in Sent("update_key") :
            LET body == Payload(r)
            IN /\ Has(body, "actions") <=> r.arg.actions # <<>>
               /\ Has(body, "indexes") <=> r.arg.indexes # <<>>
               /\ Has(body, "actions") => body["actions"] = SerializeActions(r.arg.actions)
               /\ Has(body, "indexes") => body["indexes"] = SerializeStrings(r.arg.indexes)
    /\ \A r \in Sent("create_key") :
            LET body == Payload(r)
            IN /\ Has(body, "actions") /\ Has(body, "indexes")
               /\ body["actions"] = SerializeActions(r.arg.actions)
               /\ body["indexes"] = SerializeStrings(r.arg.indexes)
               /\ r.arg.actions = <<>> => body["actions"] = JArr(<<>>)
               /\ r.arg.indexes = <<>> => body["indexes"] = JArr(<<>>)

C2_Witness ==
    /\ \E r \in Sent("update_key") :
            r.arg.actions = <<>> /\ r.arg.indexes = <<>>
    /\ \E r \in Sent("create_key") :
            r.arg.actions = <<>> /\ r.arg.indexes # <<>>

\* C3 as stated: on create and update requests the payload has no expiresAt
\* field when expires_at is absent and carries its value when it is present.
C3_ExpiryOnlyWhenPresent ==
    \A r \in WriteRequests :
        /\ IsOk(r.body)
        /\ r.arg.expires_at = None => ~Has(Payload(r), "expiresAt")
        /\ IsSome(r.arg.expires_at) =>
                /\ Has(Payload(r), "expiresAt")
                /\ Payload(r)["expiresAt"] = JStr(Rfc3339Text(Unwrap(r.arg.expires_at)))

\* C3 amended: on create and update requests a payload always has the
\* expiresAt field: null when expires_at is absent, its RFC3339 text when it
\* is present. When expires_at is present and has no RFC3339 form (its year
\* is outside 0..9999, its offset is 24 hours or more or has a seconds part)
\* serialization fails with the formatter's error and there is no payload.
C3_ExpiryAlwaysWritten ==
    \A r \in WriteRequests :
        LET e == r.arg.expires_at
        IN /\ e = None =>
                /\ IsOk(r.body)
                /\ Has(Payload(r), "expiresAt")
                /\ Payload(r)["expiresAt"] = JNull
           /\ (IsSome(e) /\ IsOk(Rfc3339(Unwrap(e)))) =>
                /\ IsOk(r.body)
                /\ Has(Payload(r), "expiresAt")
                /\ Payload(r)["expiresAt"] = JStr(Rfc3339(Unwrap(e))[2])
                /\ ParseRfc3339(Payload(r)["expiresAt"]) = Ok(Unwrap(e))
           /\ (IsSome(e) /\ IsErr(Rfc3339(Unwrap(e)))) =>
                /\ r.body = Rfc3339(Unwrap(e))
                /\ \/ Unwrap(e).year \notin 0..9999
                   \/ Abs(Unwrap(e).offset) >= 24 * 3600
                   \/ Abs(Unwrap(e).offset) % 60 # 0

C3_Witness ==
    /\ \E r \in RequestsOf("update_key") :
            /\ r.arg.expires_at = Some(DateTime(2024, 5, 6, 7, 8, 9, 0, 5415))
            /\ r.body = Err(CannotFormat("offset_second"))
            /\ futures[r.by].returned = Some(Err("transport"))
    /\ \E r \in Sent("create_key") :
            /\ r.arg.expires_at = None
            /\ Payload(r)["expiresAt"] = JNull

\* C4: a server payload that supplies key, createdAt and updatedAt but lacks
\* actions and/or indexes deserializes successfully into a Key whose missing
\* sequences are empty.
C4_MissingSequencesDefaultEmpty ==
    (IsSome(parsed) /\ IsSome(Unwrap(parsed).result)) =>
        LET p == Unwrap(parsed).payload
            r == Unwrap(Unwrap(parsed).result)
        IN (/\ ManagedWireFields \subseteq DOMAIN p
            /\ ~Has(p, "actions") \/ ~Has(p, "indexes"))
           => /\ IsOk(r)
              /\ ~Has(p, "actions") => r[2].actions = <<>>
              /\ ~Has(p, "indexes") => r[2].indexes = <<>>

\* C5: decoding the token of a variant gives the variant back, distinct
\* variants have distinct tokens, a token of the table decodes to the variant
\* that encodes to it, and any other token is an error, never a variant.
C5_ActionCodec ==
    IsSome(codecOut) =>
        LET out == Unwrap(codecOut)
        IN /\ out.roundTrip = Ok(codecIn.a)
           /\ out.encA = out.encB => codecIn.a = codecIn.b
           /\ out.encA \in WireTokens
           /\ codecIn.tok \in WireTokens =>
                /\ IsOk(out.decoded)
                /\ out.decoded[2] \in Action
                /\ ActionToken(out.decoded[2]) = codecIn.tok
           /\ codecIn.tok \notin WireTokens => IsErr(out.decoded)

C5_Witness ==
    /\ IsSome(codecOut)
    /\ codecIn.a = "All"
    /\ codecIn.b = "Version"
    /\ codecIn.tok = "All"
    /\ Unwrap(codecOut).encA = "*"
    /\ Unwrap(codecOut).roundTrip = Ok("All")
    /\ IsErr(Unwrap(codecOut).decoded)

\* C6: after any sequence of mutator calls on a new KeyBuilder, actions is
\* the concatenation in call order of everything passed to with_action and
\* with_actions, indexes is the argument of the last with_indexes followed by
\* the later with_index arguments, expires_at is the argument of the last
\* with_expires_at, and nothing else has changed.
C6_BuilderIsFoldOfCalls == builder = BuilderAfter(builderCalls)

C6_Witness ==
    /\ Len(builderCalls) = 3
    /\ builderCalls[1] = <<"with_indexes", <<"*", "test">>>>
    /\ builderCalls[2] = <<"with_indexes", <<"movies">>>>
    /\ builderCalls[3] = <<"with_index", "*">>
    /\ builder.indexes = <<"movies", "*">>

\* C7: the request issued by an execute of the KeysQuery has the offset
\* field iff with_offset was called before it, with the value of the last
\* such call, the limit field iff with_limit was called before it, with the
\* value of the last such call, and never the client.
C7_QueryRequestIsLastSettings ==
    \A r \in RequestsOf("execute_get_keys") :
        LET pre == Before(queryCalls, r.by)
            o == LastPos(pre, "with_offset")
            l == LastPos(pre, "with_limit")
        IN /\ IsOk(r.body)
           /\ DOMAIN Payload(r) \subseteq {"offset", "limit"}
           /\ Has(Payload(r), "offset") <=> o # 0
           /\ Has(Payload(r), "limit") <=> l # 0
           /\ o # 0 => Payload(r)["offset"] = JNum(pre[o][2])
           /\ l # 0 => Payload(r)["limit"] = JNum(pre[l][2])

C7_Witness ==
    \E r \in RequestsOf("execute_get_keys") :
        /\ queryCalls[1] = <<"with_offset", 0>>
        /\ queryCalls[2] = <<"with_offset", 1>>
        /\ DOMAIN Payload(r) = {"offset"}
        /\ Payload(r)["offset"] = JNum(1)

\* C8 as stated: at most one create request is ever issued from the
\* KeyBuilder, and once execute has been called no further call is made on
\* the builder.
C8_ConsumedOnce ==
    /\ Cardinality(RequestsOf("create_key")) <= 1
    /\ \A k \in 1..Len(builderCalls) :
            builderCalls[k][1] = "execute" => k = Len(builderCalls)

\* C8 amended: execute borrows the builder; every execute that is run issues
\* exactly one create request, carrying the builder as the calls made before
\* that execute left it, and the builder stays what those calls made it.
C8_EachExecuteSubmitsCurrentBuilder ==
    /\ builder = BuilderAfter(builderCalls)
    /\ \A i \in 1..Len(futures) :
            futures[i].method = "create_key" =>
                /\ Len(requests[i]) <= 1
                /\ futures[i].state \in {"pending", "done"} => Len(requests[i]) = 1
                /\ \A k \in 1..Len(requests[i]) :
                        /\ requests[i][k].method = "create_key"
                        /\ requests[i][k].arg = BuilderAfter(Before(builderCalls, i))
                        /\ requests[i][k].body = SerializeKeyBuilder(requests[i][k].arg)

C8_Witness ==
    \E r1, r2 \in RequestsOf("create_key") :
        /\ r1.by < r2.by
        /\ r1.arg.actions = <<>>
        /\ r2.arg.actions = <<"Search">>
        /\ builderCalls[2] = <<"with_action", "Search">>
        /\ futures[r1.by].state = "done"

\* The object a future of the given method borrows
Borrowed(method) ==
    CASE method = "create_key" -> builder
      [] method = "update_key" -> Unwrap(key)
      [] method = "execute_get_keys" -> query

C9_Invocations ==
    \A i \in 1..Len(futures) :
        LET f == futures[i]
        IN /\ Len(requests[i]) <= 1
           /\ f.state = "created" => requests[i] = <<>>
           /\ f.state \in {"pending", "done"} => Len(requests[i]) = 1
           /\ \A k \in 1..Len(requests[i]) : requests[i][k].method = f.method
           /\ f.state = "pending" => requests[i][1].arg = Borrowed(f.method)
           /\ f.state = "done" =>
                /\ Len(responses[i]) = 1
                /\ f.returned = Some(responses[i][1])
           /\ f.state # "done" => f.returned = None /\ responses[i] = <<>>

\* C9: an invocation of update or execute that is run makes exactly one call
\* to the Client, of its own method and on the object it was called on, and
\* an invocation that completes returns the result of that call unchanged,
\* Ok or Err; no step of an invocation changes the Key, the KeyBuilder or
\* the KeysQuery.
C9_OneCallResultPropagated ==
    [][/\ C9_Invocations'
       /\ <<futures, requests, responses>> # <<futures', requests', responses'>>
            => UNCHANGED <<builder, key, query>>]_vars

C9_Witness ==
    \E i, j, k \in 1..Len(futures) :
        /\ futures[i].method = "create_key"
        /\ futures[i].returned = Some(Err("server"))
        /\ Len(requests[i]) = 1
        /\ futures[j].method = "update_key"
        /\ futures[j].returned = Some(Ok(SampleKey))
        /\ Len(requests[j]) = 1
        /\ futures[k].method = "execute_get_keys"
        /\ futures[k].state = "pending"
        /\ Len(requests[k]) = 1

\* C10: the fields of KeyBuilder, and of a create payload, are the fields of
\* Key without created_at, updated_at and key: actions, description, name,
\* expires_at and indexes.
C10_BuilderIsKeyMinusManaged ==
    /\ DOMAIN builder = {"actions", "description", "name", "expires_at", "indexes"}
    /\ IsSome(key) =>
            DOMAIN builder = (DOMAIN Unwrap(key)) \ {"created_at", "updated_at", "key"}
    /\ IsOk(SerializeKeyBuilder(builder)) =>
            DOMAIN SerializeKeyBuilder(builder)[2]
                = {"actions", "description", "name", "expiresAt", "indexes"}

====
